---------------------------- MODULE Spec2Model ----------------------------
(***************************************************************************)
(* R1Messaging (LLM and messaging module): the outbound sendMessage path   *)
(* and its wrappers, and the inbound window.onPluginMessage hook that      *)
(* decodes a delivery and fans it out to the registered message handlers.  *)
(*                                                                         *)
(* JavaScript values are records [t, s, kids]: t is the type tag, s the    *)
(* characters of a primitive (a string is a sequence of characters), kids  *)
(* the own properties [k, v] of an object, in insertion order, a key being *)
(* a sequence of characters too.                                           *)
(***************************************************************************)
EXTENDS Naturals, Sequences, FiniteSets

\* ------------------------------------------------------------------ bounds
NumInstances == 2
NumHandlers == 2
MaxMsgLen == 2
MaxDataLen == 3
MaxCalls == 2

\* ------------------------------------------------------- JavaScript values
Undefined == [t |-> "undefined", s |-> <<>>, kids |-> <<>>]
Null == [t |-> "null", s |-> <<>>, kids |-> <<>>]
Bool(b) == [t |-> "boolean", s |-> <<IF b THEN "true" ELSE "false">>, kids |-> <<>>]
Num(digits) == [t |-> "number", s |-> digits, kids |-> <<>>]
Str(chars) == [t |-> "string", s |-> chars, kids |-> <<>>]
Obj(props) == [t |-> "object", s |-> <<>>, kids |-> props]
Arr(items) ==
  [t |-> "array", s |-> <<>>,
   kids |-> IF items = <<>> THEN <<>> ELSE [i \in 1..Len(items) |-> [k |-> <<>>, v |-> items[i]]]]
Prop(key, val) == [k |-> key, v |-> val]

\* `if (x)`: undefined, null, false, 0 and the empty string are falsy.
Truthy(x) ==
  CASE x.t = "undefined" -> FALSE
    [] x.t = "null" -> FALSE
    [] x.t = "boolean" -> x.s = <<"true">>
    [] x.t = "number" -> x.s # <<"0">>
    [] x.t = "string" -> x.s # <<>>
    [] OTHER -> TRUE

HasKey(props, key) == \E i \in 1..Len(props) : props[i].k = key

\* obj.key: the property's value, undefined when the object has no such property.
Get(props, key) ==
  IF HasKey(props, key)
  THEN props[CHOOSE i \in 1..Len(props) : props[i].k = key].v
  ELSE Undefined

\* obj[key] = val: an existing property keeps its place, a new one is appended.
Put(props, key, val) ==
  IF HasKey(props, key)
  THEN [i \in 1..Len(props) |-> IF props[i].k = key THEN Prop(key, val) ELSE props[i]]
  ELSE Append(props, Prop(key, val))

\* { ...into, ...from }: every own property of `from` is copied, undefined values too.
RECURSIVE Spread(_, _)
Spread(into, from) ==
  IF from = <<>> THEN into
  ELSE Spread(Put(into, Head(from).k, Head(from).v), Tail(from))

\* ----------------------------------------------------------- JSON.stringify
Quote == "\""
Backslash == "\\"

RECURSIVE EscapeChars(_)
EscapeChars(chars) ==
  IF chars = <<>> THEN <<>>
  ELSE (IF Head(chars) \in {Quote, Backslash} THEN <<Backslash, Head(chars)>> ELSE <<Head(chars)>>)
       \o EscapeChars(Tail(chars))

StringLiteral(chars) == <<Quote>> \o EscapeChars(chars) \o <<Quote>>

RECURSIVE JSONStringify(_)
RECURSIVE StringifyProps(_, _)
RECURSIVE StringifyItems(_, _)
\* Properties whose value is undefined are left out of an object.
StringifyProps(props, first) ==
  IF props = <<>> THEN <<>>
  ELSE IF Head(props).v.t = "undefined" THEN StringifyProps(Tail(props), first)
  ELSE (IF first THEN <<>> ELSE <<",">>)
       \o StringLiteral(Head(props).k) \o <<":">> \o JSONStringify(Head(props).v)
       \o StringifyProps(Tail(props), FALSE)

\* An undefined array element is written as null.
StringifyItems(items, first) ==
  IF items = <<>> THEN <<>>
  ELSE (IF first THEN <<>> ELSE <<",">>)
       \o (IF Head(items).v.t = "undefined" THEN <<"null">> ELSE JSONStringify(Head(items).v))
       \o StringifyItems(Tail(items), FALSE)

JSONStringify(x) ==
  CASE x.t = "string" -> StringLiteral(x.s)
    [] x.t = "object" -> <<"{">> \o StringifyProps(x.kids, TRUE) \o <<"}">>
    [] x.t = "array" -> <<"[">> \o StringifyItems(x.kids, TRUE) \o <<"]">>
    [] x.t = "null" -> <<"null">>
    [] OTHER -> x.s

\* ---------------------------------------------------------------- JSON.parse
Digits == {"0", "1"}
Failure == [ok |-> FALSE, val |-> Undefined, next |-> 0]
Success(val, next) == [ok |-> TRUE, val |-> val, next |-> next]

RECURSIVE ParseDigits(_, _)
\* The index after the run of digits that starts at i.
ParseDigits(text, i) ==
  IF i <= Len(text) /\ text[i] \in Digits THEN ParseDigits(text, i + 1) ELSE i

RECURSIVE ParseStringBody(_, _, _)
\* The characters of a string literal up to its closing quote; i is after the opening one.
ParseStringBody(text, i, acc) ==
  IF i > Len(text) THEN Failure
  ELSE IF text[i] = Quote THEN Success(Str(acc), i + 1)
  ELSE IF text[i] = Backslash
       THEN IF i + 1 <= Len(text) /\ text[i + 1] \in {Quote, Backslash}
            THEN ParseStringBody(text, i + 2, Append(acc, text[i + 1]))
            ELSE Failure
  ELSE ParseStringBody(text, i + 1, Append(acc, text[i]))

RECURSIVE ParseValue(_, _)
RECURSIVE ParseItems(_, _, _)
RECURSIVE ParseMembers(_, _, _)
\* Array elements after "[" or ","; i is at the start of an element.
ParseItems(text, i, acc) ==
  LET item == ParseValue(text, i) IN
  IF ~item.ok \/ item.next > Len(text) THEN Failure
  ELSE IF text[item.next] = "]" THEN Success(Arr(Append(acc, item.val)), item.next + 1)
  ELSE IF text[item.next] = "," THEN ParseItems(text, item.next + 1, Append(acc, item.val))
  ELSE Failure

\* Object members after "{" or ","; i is at the opening quote of a key. A repeated
\* key keeps its last value.
ParseMembers(text, i, acc) ==
  IF i > Len(text) \/ text[i] # Quote THEN Failure
  ELSE LET key == ParseStringBody(text, i + 1, <<>>) IN
       IF ~key.ok \/ key.next > Len(text) \/ text[key.next] # ":" THEN Failure
       ELSE LET val == ParseValue(text, key.next + 1) IN
            IF ~val.ok \/ val.next > Len(text) THEN Failure
            ELSE IF text[val.next] = "}"
                 THEN Success(Obj(Put(acc, key.val.s, val.val)), val.next + 1)
            ELSE IF text[val.next] = ","
                 THEN ParseMembers(text, val.next + 1, Put(acc, key.val.s, val.val))
            ELSE Failure

ParseValue(text, i) ==
  IF i > Len(text) THEN Failure
  ELSE CASE text[i] = "true" -> Success(Bool(TRUE), i + 1)
         [] text[i] = "false" -> Success(Bool(FALSE), i + 1)
         [] text[i] = "null" -> Success(Null, i + 1)
         [] text[i] = "0" -> Success(Num(<<"0">>), i + 1)
         [] text[i] = "1" -> Success(Num(SubSeq(text, i, ParseDigits(text, i) - 1)), ParseDigits(text, i))
         [] text[i] = Quote -> ParseStringBody(text, i + 1, <<>>)
         [] text[i] = "[" ->
              IF i + 1 <= Len(text) /\ text[i + 1] = "]" THEN Success(Arr(<<>>), i + 2)
              ELSE ParseItems(text, i + 1, <<>>)
         [] text[i] = "{" ->
              IF i + 1 <= Len(text) /\ text[i + 1] = "}" THEN Success(Obj(<<>>), i + 2)
              ELSE ParseMembers(text, i + 1, <<>>)
         [] OTHER -> Failure

\* String(x), the conversion JSON.parse applies to its argument first.
JSToString(x) ==
  CASE x.t = "string" -> x.s
    [] x.t = "object" -> <<"[", "object Object", "]">>
    [] x.t = "undefined" -> <<"undefined">>
    [] x.t = "null" -> <<"null">>
    [] OTHER -> x.s

\* JSON.parse(x): ok = FALSE stands for the SyntaxError it throws.
JSONParse(x) ==
  LET text == JSToString(x)
      r == ParseValue(text, 1)
  IN IF r.ok /\ r.next = Len(text) + 1 THEN [ok |-> TRUE, val |-> r.val]
     ELSE [ok |-> FALSE, val |-> Undefined]

\* ------------------------------------------------------------------- state
Instances == 1..NumInstances
Handlers == 1..NumHandlers

VARIABLES
  windowDefined,     \* typeof window !== 'undefined'
  transportDefined,  \* typeof PluginMessageHandler !== 'undefined'
  constructed,       \* instances 1..constructed have been constructed
  messageHandlers,   \* per instance: the Set's entries, in insertion order
  isInitialized,     \* per instance
  onPluginMessage,   \* window.onPluginMessage: 0, or the instance its closure captured
  hookInstalls,      \* how many times window.onPluginMessage has been assigned
  registered,        \* per instance: the handlers registered and not unregistered since
  lastOp,            \* the last Listener Set call application code made, and whether
                     \* it found its handler registered ("onMessage:again", ...)
  pc,                \* "idle", "fanout" (inside forEach) or "listener" (inside a handler)
  inbound,           \* the argument of the hook call in progress or last made
  enhancedData,      \* [id, val]: the object that call made at line 137 (id 0: none)
  pos,               \* how many entries of the Set its forEach has visited
  calls,             \* the handler invocations of that call: [h, arg, threw]
  snapshot,          \* `registered` as it was when that call began
  mutated,           \* a handler changed the iterated Set during that call
  hookResult,        \* of the last hook call: "none", "running", "returned", "threw"
  errors,            \* console.error calls of the last hook call
  lastCall,          \* the outbound call made: [op, message, options]
  posted,            \* the PluginMessageHandler.postMessage arguments of that call
  result,            \* its promise: "none", "fulfilled" or the rejection's message
  before             \* <<messageHandlers, isInitialized>> as that call found them

vars == <<windowDefined, transportDefined, constructed, messageHandlers, isInitialized,
          onPluginMessage, hookInstalls, registered, lastOp, pc, inbound, enhancedData, pos,
          calls, snapshot, mutated, hookResult, errors, lastCall, posted, result, before>>

envVars == <<windowDefined, transportDefined>>
setVars == <<messageHandlers, registered, lastOp>>
instVars == <<constructed, isInitialized, onPluginMessage, hookInstalls>>
localVars == <<enhancedData, pos, calls, snapshot, mutated>>
sendVars == <<lastCall, posted, result, before>>

NoCall == [op |-> "none", message |-> <<>>, options |-> <<>>]
NoOp == "none"
NoObject == [id |-> 0, val |-> Undefined]
NoSnapshot == [i \in Instances |-> <<>>]

Range(seq) == {seq[i] : i \in 1..Len(seq)}
IndexOf(seq, x) == CHOOSE i \in 1..Len(seq) : seq[i] = x
NoDupSeqs(S) ==
  {seq \in UNION {[1..n -> S] : n \in 0..Cardinality(S)} :
     \A i, j \in 1..Len(seq) : seq[i] = seq[j] => i = j}

InitHook ==
  /\ pc = "idle"
  /\ inbound = Undefined
  /\ enhancedData = NoObject
  /\ pos = 0
  /\ calls = <<>>
  /\ snapshot = NoSnapshot
  /\ mutated = FALSE
  /\ hookResult = "none"
  /\ errors = <<>>

InitSend ==
  /\ lastCall = NoCall
  /\ posted = <<>>
  /\ result = "none"
  /\ before = <<messageHandlers, isInitialized>>

\* The module has been evaluated: line 206 has constructed the exported instance,
\* whose constructor installed the hook if there is a window.
InitInstance ==
  /\ windowDefined \in BOOLEAN
  /\ constructed = 1
  /\ isInitialized = [i \in Instances |-> i = 1 /\ windowDefined]
  /\ onPluginMessage = (IF windowDefined THEN 1 ELSE 0)
  /\ hookInstalls = (IF windowDefined THEN 1 ELSE 0)

Init ==
  /\ InitInstance
  /\ transportDefined \in BOOLEAN
  /\ messageHandlers = [i \in Instances |-> <<>>]
  /\ registered = [i \in Instances |-> <<>>]
  /\ lastOp = NoOp
  /\ InitHook
  /\ InitSend

\* ------------------------------------------------------------------- Set
\* An array's push: the value is appended whether present or not.
ArrayPush(entries, h) == Append(entries, h)

\* Set.prototype.add: a new value is appended, a present one keeps its place.
SetAdd(entries, h) == IF h \in Range(entries) THEN entries ELSE Append(entries, h)
\* A delete that drops the newest entry, whichever handler is given.
DeleteNewest(entries, h) ==
  IF entries = <<>> THEN entries ELSE SubSeq(entries, 1, Len(entries) - 1)

\* Set.prototype.delete
SetDelete(entries, h) == SelectSeq(entries, LAMBDA y : y # h)
\* Set.prototype.clear
SetClear(entries) == <<>>

\* The instance whose Set a forEach is iterating, 0 when none is.
Iterated == IF pc = "idle" THEN 0 ELSE onPluginMessage

\* forEach walks the live entry list: a deleted entry it has passed no longer counts
\* as visited, one it has not reached is skipped, an appended one is reached later.
PosAfterDelete(i, h) ==
  IF i = Iterated /\ h \in Range(messageHandlers[i]) /\ IndexOf(messageHandlers[i], h) <= pos
  THEN pos - 1 ELSE pos
PosAfterClear(i) == IF i = Iterated THEN 0 ELSE pos

\* Application code runs between hook calls; a handler runs inside one.
CanCall == pc \in {"idle", "listener"}

\* What every Listener Set call records.
Called(op, i, entries) ==
  /\ lastOp' = IF pc = "idle" THEN op ELSE lastOp
  /\ mutated' = (mutated \/ (i = Iterated /\ entries # messageHandlers[i]))
  /\ UNCHANGED <<pc, inbound, enhancedData, calls, snapshot, hookResult, errors>>

\* ------------------------------------------------------------ constructor
InitializeMessageHandler(i) ==
  IF isInitialized[i] \/ ~windowDefined
  THEN UNCHANGED <<isInitialized, onPluginMessage, hookInstalls>>
  ELSE /\ onPluginMessage' = i
       /\ hookInstalls' = hookInstalls + 1
       /\ isInitialized' = [isInitialized EXCEPT ![i] = TRUE]

\* new R1Messaging(), by application code
Construct ==
  /\ pc = "idle"
  /\ constructed < NumInstances
  /\ constructed' = constructed + 1
  /\ InitializeMessageHandler(constructed + 1)
  /\ UNCHANGED <<envVars, setVars, pc, inbound, localVars, hookResult, errors, sendVars>>

\* ------------------------------------------- onMessage, offMessage, clear
OnMessage(i, h) ==
  /\ CanCall
  /\ i \in 1..constructed
  /\ messageHandlers' = [messageHandlers EXCEPT ![i] = SetAdd(@, h)]
  /\ registered' = [registered EXCEPT ![i] = IF h \in Range(@) THEN @ ELSE @ \o <<h>>]
  /\ pos' = pos
  /\ Called(IF h \in Range(messageHandlers[i]) THEN "onMessage:again" ELSE "onMessage:new",
            i, SetAdd(messageHandlers[i], h))
  /\ UNCHANGED <<envVars, instVars, sendVars>>

OffMessage(i, h) ==
  /\ CanCall
  /\ i \in 1..constructed
  /\ messageHandlers' = [messageHandlers EXCEPT ![i] = SetDelete(@, h)]
  /\ registered' = [registered EXCEPT ![i] = SelectSeq(@, LAMBDA x : x # h)]
  /\ pos' = PosAfterDelete(i, h)
  /\ Called(IF h \in Range(messageHandlers[i]) THEN "offMessage:registered"
            ELSE "offMessage:absent",
            i, SetDelete(messageHandlers[i], h))
  /\ UNCHANGED <<envVars, instVars, sendVars>>

RemoveAllHandlers(i) ==
  /\ CanCall
  /\ i \in 1..constructed
  /\ messageHandlers' = [messageHandlers EXCEPT ![i] = SetClear(@)]
  /\ registered' = [registered EXCEPT ![i] = <<>>]
  /\ pos' = PosAfterClear(i)
  /\ Called("removeAllHandlers", i, SetClear(messageHandlers[i]))
  /\ UNCHANGED <<envVars, instVars, sendVars>>

\* ------------------------------------------------- window.onPluginMessage
KData == <<"data">>
KParsedData == <<"parsedData">>
KMessage == <<"message">>

\* `data.data` on null or undefined is a TypeError.
PropertyReadThrows(data) == data.t \in {"undefined", "null"}

\* parsedData as lines 126-134 compute it.
ParsedData(data) ==
  LET raw == Get(data.kids, KData) IN
  IF Truthy(raw)
  THEN IF JSONParse(raw).ok THEN JSONParse(raw).val ELSE raw
  ELSE Undefined

\* { ...data, parsedData }
EnhancedOf(data) == Obj(Put(Spread(<<>>, data.kids), KParsedData, ParsedData(data)))

\* Without the outer try/catch an exception would reach the host.
OuterNoCatch(thrown) ==
  [result |-> IF thrown THEN "threw" ELSE "returned", logged |-> <<>>]

\* The catch around the whole hook body: logs, and the hook returns normally.
OuterCatch(thrown) ==
  [result |-> "returned",
   logged |-> IF thrown THEN <<"Error processing plugin message:">> ELSE <<>>]

\* Without the inner try/catch a handler's exception would leave forEach.
HandlerNoCatch(thrown) == [resume |-> ~thrown, logged |-> <<>>]

\* The catch around one handler call: logs, and forEach goes on.
HandlerCatch(thrown) ==
  [resume |-> TRUE,
   logged |-> IF thrown THEN <<"Error in message handler:">> ELSE <<>>]

\* An iteration from the last entry to the first.
NextHandlerReversed ==
  messageHandlers[onPluginMessage][Len(messageHandlers[onPluginMessage]) - pos]

\* The entry forEach visits next.
NextHandler == messageHandlers[onPluginMessage][pos + 1]

\* What the handler is called with: the one object made at line 137.
HandlerArgument == enhancedData.id

\* The hook call is over: its locals are gone.
Leave(thrown) ==
  /\ pc' = "idle"
  /\ hookResult' = OuterCatch(thrown).result
  /\ errors' = (IF pc = "idle" THEN <<>> ELSE errors) \o OuterCatch(thrown).logged
  /\ enhancedData' = NoObject
  /\ pos' = 0
  /\ calls' = <<>>
  /\ snapshot' = NoSnapshot
  /\ mutated' = FALSE

\* The host calls window.onPluginMessage(d): lines 124-137, up to forEach.
HookCall(d) ==
  /\ pc = "idle"
  /\ onPluginMessage # 0
  /\ inbound' = d
  /\ IF PropertyReadThrows(d)
     THEN Leave(TRUE)
     ELSE /\ pc' = "fanout"
          /\ enhancedData' = [id |-> 1, val |-> EnhancedOf(d)]
          /\ snapshot' = registered
          /\ mutated' = FALSE
          /\ calls' = <<>>
          /\ pos' = 0
          /\ hookResult' = "running"
          /\ errors' = <<>>
  /\ UNCHANGED <<envVars, setVars, instVars, sendVars>>

\* forEach calls the next entry (lines 138-140).
ListenerEnter ==
  /\ pc = "fanout"
  /\ pos < Len(messageHandlers[onPluginMessage])
  /\ Len(calls) < MaxCalls
  /\ calls' = Append(calls, [h |-> NextHandler, arg |-> HandlerArgument, threw |-> "pending"])
  /\ pos' = pos + 1
  /\ pc' = "listener"
  /\ UNCHANGED <<envVars, setVars, instVars, sendVars, inbound, enhancedData, snapshot,
                 mutated, hookResult, errors>>

\* The handler returns or throws (lines 141-143).
ListenerExit(thrown) ==
  /\ pc = "listener"
  /\ IF HandlerCatch(thrown).resume
     THEN /\ pc' = "fanout"
          /\ calls' = [calls EXCEPT ![Len(calls)].threw = IF thrown THEN "yes" ELSE "no"]
          /\ errors' = errors \o HandlerCatch(thrown).logged
          /\ UNCHANGED <<enhancedData, pos, snapshot, mutated, hookResult>>
     ELSE Leave(TRUE)
  /\ UNCHANGED <<envVars, setVars, instVars, sendVars, inbound>>

\* forEach has no entry left: the hook body ends (lines 144-148).
ForEachDone == pc = "fanout" /\ pos = Len(messageHandlers[onPluginMessage])

HookReturn ==
  /\ ForEachDone
  /\ Leave(FALSE)
  /\ UNCHANGED <<envVars, setVars, instVars, sendVars, inbound>>

\* A delivery the host may hand over, with its data field set to `data`. Those below:
\* no object at all, a JSON string, and data that is an object instead of a string.
DeliveryOf(data) == Obj(<<Prop(KMessage, Str(<<"a">>)), Prop(KData, data)>>)

Deliveries ==
  { Null, Undefined,
    DeliveryOf(Str(<<"[", "1", "]">>)),
    DeliveryOf(Obj(<<>>)) }

Next ==
  \/ \E i \in Instances, h \in Handlers : OnMessage(i, h)
  \/ \E i \in Instances, h \in Handlers : OffMessage(i, h)
  \/ \E i \in Instances : RemoveAllHandlers(i)
  \/ \E d \in Deliveries : HookCall(d)
  \/ ListenerEnter
  \/ \E thrown \in BOOLEAN : ListenerExit(thrown)
  \/ HookReturn

\* The module as exported: application code uses the one instance of line 206.
Spec == Init /\ [][Next]_vars

\* Application code also constructs instances of its own.
NextInstances == Next \/ Construct

SpecInstances == Init /\ [][NextInstances]_vars

\* --------------------------------------------------- sendMessage, askLLM
KUseLLM == <<"useLLM">>
KWantsR1Response == <<"wantsR1Response">>
KWantsJournalEntry == <<"wantsJournalEntry">>
TransportUnavailable ==
  "PluginMessageHandler not available. Make sure you are running in R1 environment."
JSONSuffix == <<". Please respond with a valid JSON object.">>

\* { message, options }: the bag nested instead of spread.
PayloadNested(message, options) ==
  Obj(<<Prop(KMessage, Str(message)), Prop(<<"options">>, Obj(options))>>)

\* { message, ...options }
Payload(message, options) == Obj(Spread(<<Prop(KMessage, Str(message))>>, options))

\* A send that, like closePlugin, does nothing when the primitive is missing.
TransportSilent(payload) ==
  IF transportDefined
  THEN [posted |-> <<JSONStringify(payload)>>, result |-> "fulfilled"]
  ELSE [posted |-> <<>>, result |-> "fulfilled"]

\* Lines 44-48: what is posted, and how the promise settles.
Transport(payload) ==
  IF transportDefined
  THEN [posted |-> <<JSONStringify(payload)>>, result |-> "fulfilled"]
  ELSE [posted |-> <<>>, result |-> TransportUnavailable]

\* { useLLM: true, ...options }
AskLLMOptions(options) == Spread(<<Prop(KUseLLM, Bool(TRUE))>>, options)

\* saveToJournal = false when the argument is left out (undefined).
AskLLMSpeakOptions(saveToJournal) ==
  <<Prop(KWantsR1Response, Bool(TRUE)),
    Prop(KWantsJournalEntry, IF saveToJournal.t = "undefined" THEN Bool(FALSE) ELSE saveToJournal)>>

\* message.includes('JSON') ? message : `${message}. Please respond with ...`
JSONMessage(message) == IF "JSON" \in Range(message) THEN message ELSE message \o JSONSuffix

\* The body of sendMessage, reached with `message` and `options`, on behalf of `op`.
Send(op, args, message, options) ==
  /\ pc = "idle"
  /\ lastCall' = [op |-> op, message |-> args[1], options |-> args[2]]
  /\ posted' = Transport(Payload(message, options)).posted
  /\ result' = Transport(Payload(message, options)).result
  /\ before' = <<messageHandlers, isInitialized>>
  /\ UNCHANGED <<envVars, setVars, instVars, pc, inbound, localVars, hookResult, errors>>

SendMessage(message, options) ==
  Send("sendMessage", <<message, options>>, message, options)

AskLLM(message, options) ==
  Send("askLLM", <<message, options>>, message, AskLLMOptions(options))

AskLLMSpeak(message, saveToJournal) ==
  Send("askLLMSpeak", <<message, <<Prop(<<"saveToJournal">>, saveToJournal)>> >>, message,
       AskLLMOptions(AskLLMSpeakOptions(saveToJournal)))

AskLLMJSON(message, options) ==
  Send("askLLMJSON", <<message, options>>, JSONMessage(message), AskLLMOptions(options))

\* The inputs: messages over a few characters ("JSON" stands for that substring, the
\* quote needs escaping), option bags with each flag absent, true, false or undefined.
MsgChars == {"a", "JSON", Quote}
Messages == UNION {[1..n -> MsgChars] : n \in 0..MaxMsgLen}
FlagValues == {Bool(TRUE), Bool(FALSE), Undefined}
Flag(key, choice) == IF choice = Null THEN <<>> ELSE <<Prop(key, choice)>>
OptionBags ==
  {Flag(KUseLLM, a) \o Flag(KWantsR1Response, b) \o Flag(KWantsJournalEntry, c) :
     a, b, c \in FlagValues \cup {Null}}

\* The application has yet to make its call.
NotCalled == lastCall = NoCall

NextSend ==
  \/ NotCalled /\ \E m \in Messages, o \in OptionBags : SendMessage(m, o)
  \/ NotCalled /\ \E m \in Messages, o \in OptionBags : AskLLM(m, o)
  \/ NotCalled /\ \E m \in Messages, j \in FlagValues : AskLLMSpeak(m, j)
  \/ NotCalled /\ \E m \in Messages, o \in OptionBags : AskLLMJSON(m, o)

\* One outbound call, made in any state of the listener set.
InitSendSpec ==
  /\ InitInstance
  /\ transportDefined \in BOOLEAN
  /\ messageHandlers \in [Instances -> {<<>>, <<1>>, <<2, 1>>}]
  /\ \A i \in Instances : i > constructed => messageHandlers[i] = <<>>
  /\ registered = messageHandlers
  /\ lastOp = NoOp
  /\ InitHook
  /\ InitSend

SpecSend == InitSendSpec /\ [][NextSend]_vars

\* ------------------------------------------------------------ the decoding
\* The data strings: every string of a few JSON characters, and the two of the
\* documentation ('{"a":1}' and 'plain text').
DataChars == {"[", "]", "{", "}", "0", "1", "null", "x"}
DataStrings ==
  UNION {[1..n -> DataChars] : n \in 0..MaxDataLen}
    \cup {<<"{", Quote, "a", Quote, ":", "1", "}">>, <<"plain", " ", "text">>}

DecodeDeliveries ==
  {DeliveryOf(Str(chars)) : chars \in DataStrings}
    \cup {DeliveryOf(x) : x \in {Undefined, Null, Bool(FALSE), Bool(TRUE), Num(<<"0">>),
                                 Num(<<"1">>), Obj(<<>>)}}
    \cup {Obj(<<>>), Obj(<<Prop(KMessage, Str(<<"a">>))>>),
          Obj(<<Prop(KData, Str(<<"1">>)), Prop(KParsedData, Str(<<"x">>))>>)}

NextDecode ==
  \/ \E d \in DecodeDeliveries : HookCall(d)
  \/ ListenerEnter
  \/ \E thrown \in BOOLEAN : ListenerExit(thrown)
  \/ HookReturn

InitDecode ==
  /\ InitInstance
  /\ transportDefined = TRUE
  /\ messageHandlers \in [Instances -> {<<>>, <<1>>}]
  /\ \A i \in Instances : i > constructed => messageHandlers[i] = <<>>
  /\ registered = messageHandlers
  /\ lastOp = NoOp
  /\ InitHook
  /\ InitSend

SpecDecode == InitDecode /\ [][NextDecode]_vars

\* ----------------------------------------------------------------- claims
\* The handlers the hook call in progress has invoked, in order.
Invoked == [n \in 1..Len(calls) |-> calls[n].h]
Times(h) == Cardinality({n \in 1..Len(calls) : calls[n].h = h})
Thrown == {n \in 1..Len(calls) : calls[n].threw = "yes"}
\* The listeners registered, when the call began, on the instance the hook belongs to.
AtStart == IF onPluginMessage = 0 THEN <<>> ELSE snapshot[onPluginMessage]

\* C1: when a delivery's fan-out is over and no listener has changed the Listener
\* Set, the listeners registered when it began were invoked once each, in the order
\* of their registration, and every one was handed the one Enhanced Delivery object
\* the hook made.
C1_InOrderOnceSameObject ==
  (ForEachDone /\ ~mutated) =>
    /\ Len(calls) = Len(AtStart)
    /\ \A n \in 1..Len(calls) : calls[n].h = AtStart[n]
    /\ \A n \in 1..Len(calls) : calls[n].arg = enhancedData.id /\ enhancedData.id # 0

C1_Witness ==
  /\ ForEachDone /\ ~mutated
  /\ AtStart = <<2, 1>>
  /\ Len(calls) = 2 /\ calls[1].h = 2 /\ calls[2].h = 1
  /\ calls[1].arg = calls[2].arg

\* C2: a listener that throws never aborts the fan-out: after any handler returns or
\* throws, forEach resumes where it was, and when the fan-out of a delivery in which
\* listeners threw (and none changed the Listener Set) is over, every listener
\* registered when it began has been invoked.
C2_AllInvoked ==
  (ForEachDone /\ ~mutated /\ Thrown # {}) => Range(AtStart) \subseteq Range(Invoked)

C2_Resumes ==
  (pc = "listener" /\ pc' # "listener") =>
    (pc' = "fanout" /\ pos' = pos /\ messageHandlers' = messageHandlers)

C2_ListenerFaultIsolated == [](C2_AllInvoked) /\ [][C2_Resumes]_vars

C2_Witness ==
  /\ ForEachDone /\ ~mutated
  /\ Len(calls) = 2 /\ calls[1].threw = "yes" /\ calls[2].threw = "yes"
  /\ Len(errors) = 2

\* C3: the set of listeners invoked for a delivery is exactly the set registered when
\* the delivery began, whatever onMessage, offMessage and removeAllHandlers calls the
\* listeners make during the fan-out.
C3_SnapshotAtDispatch ==
  /\ Range(Invoked) \subseteq Range(AtStart)
  /\ ForEachDone => Range(Invoked) = Range(AtStart)

\* C4: the hook is installed at most once however many instances are constructed,
\* and the listeners registered on every instance receive each delivery.
C4_OneLogicalInbox ==
  /\ hookInstalls <= 1
  /\ (ForEachDone /\ ~mutated) =>
       \A i \in 1..constructed : Range(snapshot[i]) \subseteq Range(Invoked)

\* C5: the hook never lets an exception reach the host: it returns normally for a
\* malformed delivery, whose failure it logs, and for listeners that throw, whose
\* failures it logs one by one.
C5_HookNeverThrows ==
  /\ hookResult # "threw"
  /\ (hookResult = "returned" /\ PropertyReadThrows(inbound)) =>
       errors = <<"Error processing plugin message:">>
  /\ pc # "idle" =>
       /\ Len(errors) = Cardinality(Thrown)
       /\ \A n \in 1..Len(errors) : errors[n] = "Error in message handler:"

C5_Witness ==
  /\ hookResult = "returned"
  /\ inbound = Null
  /\ errors = <<"Error processing plugin message:">>

FlagKeys == {KUseLLM, KWantsR1Response, KWantsJournalEntry}
\* A flag the caller gave a value: a property left out, or set to undefined, is not.
Given(options, key) == Get(options, key).t # "undefined"
Local == <<messageHandlers, isInitialized>>

\* C6: with the transport present, sendMessage(message, options) posts exactly one
\* string; decoded, it is an object whose message is the message argument, which has
\* each flag exactly when options gives it, with the value given, and no other field;
\* the Listener Set and the initialization flag are as they were.
C6_SendForwardsEnvelope ==
  (lastCall.op = "sendMessage" /\ transportDefined) =>
    /\ Len(posted) = 1
    /\ result = "fulfilled"
    /\ LET doc == JSONParse(Str(posted[1])) IN
         /\ doc.ok
         /\ doc.val.t = "object"
         /\ Get(doc.val.kids, KMessage) = Str(lastCall.message)
         /\ \A key \in FlagKeys :
              /\ HasKey(doc.val.kids, key) <=> Given(lastCall.options, key)
              /\ Get(doc.val.kids, key) = Get(lastCall.options, key)
         /\ \A n \in 1..Len(doc.val.kids) : doc.val.kids[n].k \in FlagKeys \cup {KMessage}
    /\ Local = before

C6_Witness ==
  /\ lastCall.op = "sendMessage"
  /\ transportDefined
  /\ lastCall.message = <<"a", Quote>>
  /\ lastCall.options =
       <<Prop(KUseLLM, Bool(TRUE)), Prop(KWantsR1Response, Undefined),
         Prop(KWantsJournalEntry, Bool(FALSE))>>
  /\ Len(posted) = 1
  /\ messageHandlers[1] = <<2, 1>>

\* C7: with the transport absent, sendMessage, askLLM, askLLMSpeak and askLLMJSON
\* each reject with the "PluginMessageHandler not available" error, post nothing, and
\* leave the Listener Set and the initialization flag as they were.
C7_TransportUnavailable ==
  (lastCall.op # "none" /\ ~transportDefined) =>
    /\ result = TransportUnavailable
    /\ posted = <<>>
    /\ Local = before

C7_Witness ==
  /\ lastCall.op = "askLLMSpeak"
  /\ ~transportDefined
  /\ result = TransportUnavailable
  /\ messageHandlers[1] = <<2, 1>>

\* C8: in the Enhanced Delivery, parsedData is the decoded document when data is a
\* string of valid JSON and the raw string when data is any other string, the empty
\* one included; for data a string or absent it is undefined only when data is
\* absent; every other field of the delivery is there unchanged, and nothing else.
C8_DecodeRule ==
  pc = "fanout" =>
    LET raw == Get(inbound.kids, KData)
        parsed == Get(enhancedData.val.kids, KParsedData)
    IN /\ raw.t = "string" =>
            parsed = (IF JSONParse(raw).ok THEN JSONParse(raw).val ELSE raw)
       /\ (parsed.t = "undefined" /\ raw.t \in {"string", "undefined"}) =>
            raw.t = "undefined"
       /\ \A n \in 1..Len(inbound.kids) :
            inbound.kids[n].k # KParsedData =>
              /\ HasKey(enhancedData.val.kids, inbound.kids[n].k)
              /\ Get(enhancedData.val.kids, inbound.kids[n].k) = inbound.kids[n].v
       /\ \A n \in 1..Len(enhancedData.val.kids) :
            \/ enhancedData.val.kids[n].k = KParsedData
            \/ HasKey(inbound.kids, enhancedData.val.kids[n].k)

\* C9: on every instance the Listener Set holds exactly the handlers whose last
\* onMessage no offMessage of the same handler and no removeAllHandlers has followed;
\* a delivery (whose listeners leave the set alone) invokes exactly those, and with
\* none registered it invokes nothing and logs no error.
C9_RegisteredAreInvoked ==
  /\ \A i \in Instances : Range(messageHandlers[i]) = Range(registered[i])
  /\ (ForEachDone /\ ~mutated) => Range(Invoked) = Range(AtStart)
  /\ (ForEachDone /\ ~mutated /\ AtStart = <<>>) =>
       (calls = <<>> /\ errors = <<>> /\ hookResult = "running")

C9_Witness ==
  /\ ForEachDone /\ ~mutated
  /\ lastOp = "offMessage:registered"
  /\ AtStart = <<2>>
  /\ Len(calls) = 1 /\ calls[1].h = 2

\* C10: a handler is in the Listener Set at most once however often it is registered:
\* onMessage of a registered handler changes nothing, a delivery invokes each
\* registered handler exactly once, and one offMessage leaves it unregistered.
C10_NoDuplicates ==
  \A i \in Instances, h \in Handlers :
    Cardinality({n \in 1..Len(messageHandlers[i]) : messageHandlers[i][n] = h}) <= 1

C10_OnceEach ==
  (ForEachDone /\ ~mutated) => \A h \in Range(AtStart) : Times(h) = 1

C10_Steps ==
  \A i \in Instances, h \in Handlers :
    /\ (OnMessage(i, h) /\ h \in Range(messageHandlers[i])) =>
         messageHandlers'[i] = messageHandlers[i]
    /\ OffMessage(i, h) => h \notin Range(messageHandlers'[i])

C10_Idempotent == [](C10_NoDuplicates /\ C10_OnceEach) /\ [][C10_Steps]_vars

C10_Witness ==
  /\ ForEachDone /\ ~mutated
  /\ lastOp = "onMessage:again"
  /\ AtStart = <<1, 2>>
  /\ Times(1) = 1 /\ Times(2) = 1

\* The envelope the transport was handed, decoded.
Envelope == JSONParse(Str(posted[1])).val.kids

\* C11: with the transport present, the envelope askLLM, askLLMSpeak and askLLMJSON
\* forward has useLLM = true for every message and every options bag, whatever fields
\* the bag carries; the envelope of askLLMSpeak(message, saveToJournal) has
\* wantsR1Response = true too, and wantsJournalEntry = saveToJournal, false when the
\* argument is left out.
C11_UseLLMForced ==
  (lastCall.op \in {"askLLM", "askLLMSpeak", "askLLMJSON"} /\ transportDefined) =>
    /\ Len(posted) = 1
    /\ JSONParse(Str(posted[1])).ok
    /\ Get(Envelope, KUseLLM) = Bool(TRUE)
    /\ lastCall.op = "askLLMSpeak" =>
         LET saveToJournal == Get(lastCall.options, <<"saveToJournal">>) IN
         /\ Get(Envelope, KWantsR1Response) = Bool(TRUE)
         /\ Get(Envelope, KWantsJournalEntry) =
              (IF saveToJournal.t = "undefined" THEN Bool(FALSE) ELSE saveToJournal)

\* C12: whatever onMessage, offMessage and removeAllHandlers calls the listeners make
\* during a fan-out (a listener removing and re-adding itself included), no listener
\* is invoked more than once for the delivery, and the entry forEach is about to
\* visit is never a listener it has already invoked, so that the fan-out ends after
\* at most one invocation per listener.
C12_MutationSafeFanOut ==
  /\ \A h \in Handlers : Times(h) <= 1
  /\ (pc = "fanout" /\ ~ForEachDone) => NextHandler \notin Range(Invoked)

=============================================================================
